---------------------------- MODULE Spec2Model ----------------------------
(***************************************************************************)
(* A model of KenoProject/Keno_Main.cpp: the combinatorics functions, the  *)
(* probability loop and the expected-value loop of _tmain, and the export. *)
(*                                                                         *)
(* Numbers.  TLC's integers are 32 bits wide, so every program integer     *)
(* that can be wider (QWORD, DWORD) and every double is held as a          *)
(* little-endian sequence of base-2^15 limbs without leading zero limbs    *)
(* (the value 0 is << >>).  A QWORD keeps its width: results are cut to    *)
(* 64 bits (modulo 2^64); a DWORD to 32 bits (modulo 2^32).                *)
(*                                                                         *)
(* Loops.  TLC evaluates a recursive operator on the Java stack, which     *)
(* holds a few hundred levels.  A loop of the program that runs up to n    *)
(* times is therefore evaluated by halving its range: the first half of    *)
(* the iterations, then the second half on the first half's result.  The   *)
(* iterations run in the program's order, on the program's values.         *)
(*                                                                         *)
(* Doubles.  A double is held as an exact non-negative fraction            *)
(* [num, den] of such numbers: the model computes what the double          *)
(* expressions of the program denote in exact arithmetic; the rounding of  *)
(* IEEE-754 is not modelled.                                               *)
(***************************************************************************)
EXTENDS Integers, Sequences, FiniteSets

VARIABLES
    pc,                 \* where _tmain is
    i, j,               \* the loop counters of _tmain
    g_rgProbability,    \* [0..19][0..20] of double
    g_rgExpectedValue,  \* [0..8] of double
    calls,              \* history: the (dwNumMarked, dwCaught) calcKenoProbability was called with
    factorialArgs,      \* history: the wN calcFactorial was called with
    partialFactorialArgs, \* history: the (wN, wNumTerms) calcPartialFactorial was called with
    wrapped,            \* history: a QWORD multiplication has wrapped around
    xlProbability,      \* what ExportKenoProbabilityDataSheet wrote to the sheet
    xlExpectedValue,    \* what ExportKenoPayOutDataSheet wrote to the sheet
    pass,               \* which execution of the two loops this is (1, or 2 in SpecTwice)
    first,              \* history: the tables as the first execution left them
    fn, argN, argR, ret \* the library call of SpecLib: function, arguments, result

vars == <<pc, i, j, g_rgProbability, g_rgExpectedValue, calls,
          factorialArgs, partialFactorialArgs, wrapped, xlProbability,
          xlExpectedValue, pass, first, fn, argN, argR, ret>>

-----------------------------------------------------------------------------
(* Natural numbers of any width                                            *)

Base == 2^15

Zero == << >>

One == <<1>>

RECURSIVE FromInt(_)
FromInt(n) == IF n = 0 THEN Zero ELSE <<n % Base>> \o FromInt(n \div Base)

RECURSIVE Norm(_)
Norm(a) ==
    IF a # Zero /\ a[Len(a)] = 0 THEN Norm(SubSeq(a, 1, Len(a) - 1)) ELSE a

Limb(a, k) == IF k <= Len(a) THEN a[k] ELSE 0

RECURSIVE AddFrom(_, _, _, _)
AddFrom(a, b, k, carry) ==
    IF k > Len(a) /\ k > Len(b)
    THEN FromInt(carry)
    ELSE LET s == Limb(a, k) + Limb(b, k) + carry
         IN  <<s % Base>> \o AddFrom(a, b, k + 1, s \div Base)

Add(a, b) == AddFrom(a, b, 1, 0)

\* a * d for a limb-sized d (d < Base, so that no limb product leaves 31 bits)
RECURSIVE MulSmallFrom(_, _, _, _)
MulSmallFrom(a, d, k, carry) ==
    IF k > Len(a)
    THEN FromInt(carry)
    ELSE LET s == a[k] * d + carry
         IN  <<s % Base>> \o MulSmallFrom(a, d, k + 1, s \div Base)

MulSmall(a, d) == IF d = 0 THEN Zero ELSE MulSmallFrom(a, d, 1, 0)

ShiftLimb(a) == IF a = Zero THEN Zero ELSE <<0>> \o a

\* a * (the limbs k.. of b)
RECURSIVE MulFrom(_, _, _)
MulFrom(a, b, k) ==
    IF k > Len(b) THEN Zero
    ELSE IF k = Len(b) THEN MulSmall(a, b[k])
    ELSE Add(MulSmall(a, b[k]), ShiftLimb(MulFrom(a, b, k + 1)))

Mul(a, b) == IF Len(a) < Len(b) THEN MulFrom(b, a, 1) ELSE MulFrom(a, b, 1)

\* a <= b
RECURSIVE LeqFrom(_, _, _)
LeqFrom(a, b, k) ==
    IF k = 0 THEN TRUE
    ELSE IF a[k] # b[k] THEN a[k] < b[k]
    ELSE LeqFrom(a, b, k - 1)

Leq(a, b) ==
    IF Len(a) # Len(b) THEN Len(a) < Len(b) ELSE LeqFrom(a, b, Len(a))

\* a - b, for b <= a
RECURSIVE SubFrom(_, _, _, _)
SubFrom(a, b, k, borrow) ==
    IF k > Len(a)
    THEN Zero
    ELSE LET s == a[k] - Limb(b, k) - borrow
         IN  <<s % Base>> \o SubFrom(a, b, k + 1, IF s < 0 THEN 1 ELSE 0)

Sub(a, b) == Norm(SubFrom(a, b, 1, 0))

\* the largest d in lo..hi with b * d <= a (b * lo <= a is given)
RECURSIVE QuotDigit(_, _, _, _)
QuotDigit(a, b, lo, hi) ==
    IF lo = hi THEN lo
    ELSE LET mid == (lo + hi + 1) \div 2
         IN  IF Leq(MulSmall(b, mid), a)
             THEN QuotDigit(a, b, mid, hi)
             ELSE QuotDigit(a, b, lo, mid - 1)

\* quotient and remainder of (the limbs k.. of a) by b, for b # 0: long division
RECURSIVE DivModFrom(_, _, _)
DivModFrom(a, b, k) ==
    IF k > Len(a)
    THEN [q |-> Zero, r |-> Zero]
    ELSE LET h == DivModFrom(a, b, k + 1)
             t == Norm(<<a[k]>> \o h.r)
             d == QuotDigit(t, b, 0, Base - 1)
         IN  [q |-> Norm(<<d>> \o h.q), r |-> Sub(t, MulSmall(b, d))]

Div(a, b) == DivModFrom(a, b, 1).q

\* a modulo 2^bits: what a conversion to an unsigned type of that width keeps
Trunc(a, bits) ==
    LET whole == bits \div 15
        rest  == bits % 15
    IN  IF Len(a) <= whole
        THEN a
        ELSE Norm(SubSeq(a, 1, whole) \o <<a[whole + 1] % (2^rest)>>)

-----------------------------------------------------------------------------
(* double: an exact non-negative fraction                                  *)

RFromBig(n) == [num |-> n, den |-> One]

RFromInt(n) == RFromBig(FromInt(n))

RZero == RFromBig(Zero)

RMul(x, y) == [num |-> Mul(x.num, y.num), den |-> Mul(x.den, y.den)]

RDiv(x, y) == [num |-> Mul(x.num, y.den), den |-> Mul(x.den, y.num)]

RAdd(x, y) ==
    IF x.den = y.den
    THEN [num |-> Add(x.num, y.num), den |-> x.den]
    ELSE [num |-> Add(Mul(x.num, y.den), Mul(y.num, x.den)),
          den |-> Mul(x.den, y.den)]

\* x == y of two doubles
REq(x, y) == Mul(x.num, y.den) = Mul(y.num, x.den)

\* x > 0 of a double
RPositive(x) == x.num # Zero

-----------------------------------------------------------------------------
(* The program's constants                                                 *)

g_MAX_ROWS == 20

g_MAX_COLS == 21

g_TOTAL_BALLS == 80

g_MAX_SELECTABLE_BALLS == 20

g_MAX_PAYOUT_ROWS == 9

g_MAX_PAYOUT_COLS == 9

g_MAX_SPOTS_MARKED == 9

\* g_rgCatchPayOut[i][j]: the table is 0-based in the program and 1-based
\* here, so the program's g_rgCatchPayOut[i][j] is g_rgCatchPayOut[i + 1][j + 1]
g_rgCatchPayOut ==
    << <<3,  0,  0,   0,   0,    0,    0,     0,     0>>,
       <<0, 12,  0,   0,   0,    0,    0,     0,     0>>,
       <<0,  1, 42,   0,   0,    0,    0,     0,     0>>,
       <<0,  1,  3, 120,   0,    0,    0,     0,     0>>,
       <<0,  0,  1,   9, 800,    0,    0,     0,     0>>,
       <<0,  0,  1,   4,  88, 1500,    0,     0,     0>>,
       <<0,  0,  0,   2,  20,  350,  700,     0,     0>>,
       <<0,  0,  0,   0,   9,   90, 1500, 20000,     0>>,
       <<0,  0,  0,   0,   4,   43, 3000,  4000, 25000>> >>

-----------------------------------------------------------------------------
(* The combinatorics functions                                             *)

\* static_cast<WORD>(n), also of a DWORD difference that wrapped: 2^16 divides 2^32
ToWORD(n) == n % 65536

\* the product of two QWORDs: modulo 2^64
QMul(a, b) == Trunc(Mul(a, b), 64)

\* the multiplication in a 32-bit type
FactorialReturn32(wN, below) == Trunc(Mul(FromInt(wN), below), 32)

\* One return of calcFactorial: wN * calcFactorial(wN - 1), the multiplication
\* in QWORD, where below is what calcFactorial(wN - 1) returned
FactorialReturn(wN, below) == QMul(FromInt(wN), below)

\* What calcFactorial(hi) returns, given that calcFactorial(lo - 1) returned
\* below: the recursion returns from calcFactorial(lo), then lo + 1, ... up to hi.
\* (Once a return is 0, every later one is 0 * wN = 0.)
RECURSIVE FactorialFrom(_, _, _)
FactorialFrom(lo, hi, below) ==
    IF lo > hi \/ below = Zero THEN below
    ELSE IF lo = hi THEN FactorialReturn(lo, below)
    ELSE LET mid == (lo + hi) \div 2
         IN  FactorialFrom(mid + 1, hi, FactorialFrom(lo, mid, below))

calcFactorial(wN) == IF wN > 1 THEN FactorialFrom(2, wN, One) ELSE One

\* One iteration of the loop of calcPartialFactorial: fResult * (wN - i).
\* wN - i is an int; it is negative only after an iteration where it was 0,
\* and from then on fResult is (plus or minus) 0, which compares equal to 0.0.
PartialFactorialStep(wN, fResult, idx) ==
    IF fResult = RZero \/ wN - idx <= 0
    THEN RZero
    ELSE RMul(fResult, RFromInt(wN - idx))

\* The iterations lo .. hi of the loop of calcPartialFactorial on fResult
RECURSIVE PartialFactorialFrom(_, _, _, _)
PartialFactorialFrom(wN, lo, hi, fResult) ==
    IF lo > hi \/ fResult = RZero THEN fResult
    ELSE IF lo = hi THEN PartialFactorialStep(wN, fResult, lo)
    ELSE LET mid == (lo + hi) \div 2
         IN  PartialFactorialFrom(wN, mid + 1, hi,
                                  PartialFactorialFrom(wN, lo, mid, fResult))

\* the loop started at i = 1 and run to i <= wNumTerms
calcPartialFactorialFromOne(wN, wNumTerms) ==
    PartialFactorialFrom(wN, 1, wNumTerms, RFromInt(1))

calcPartialFactorial(wN, wNumTerms) ==
    PartialFactorialFrom(wN, 0, wNumTerms - 1, RFromInt(1))

\* qwRFactorial * qwDifFactorial, the divisor in calcCombinations
CombinationsDivisor(dwN, dwR) ==
    QMul(calcFactorial(ToWORD(dwR)), calcFactorial(ToWORD(dwN - dwR)))

\* calcCombinations divides by zero: the behaviour is undefined
CombinationsUndefined(dwN, dwR) ==
    dwR <= dwN /\ CombinationsDivisor(dwN, dwR) = Zero

\* the division by r! left out: the count of ordered selections
calcCombinationsOrdered(dwN, dwR) ==
    IF dwR <= dwN
    THEN Trunc(Div(calcFactorial(ToWORD(dwN)), calcFactorial(ToWORD(dwN - dwR))), 32)
    ELSE Zero

\* the test written with < for <=
calcCombinationsStrict(dwN, dwR) ==
    IF dwR < dwN
    THEN Trunc(Div(calcFactorial(ToWORD(dwN)), CombinationsDivisor(dwN, dwR)), 32)
    ELSE Zero

\* the DWORD calcCombinations returns, where its division is defined
calcCombinations(dwN, dwR) ==
    IF dwR <= dwN
    THEN Trunc(Div(calcFactorial(ToWORD(dwN)), CombinationsDivisor(dwN, dwR)), 32)
    ELSE Zero

\* calcKenoProbability with the balls not drawn miscounted: 59 for 80 - 20
calcKenoProbabilityOffByOne(dwNumMarked, dwCaught) ==
    LET dwNumCombinations == calcCombinations(dwNumMarked, dwCaught)
        qwP1 == calcPartialFactorial(ToWORD(g_MAX_SELECTABLE_BALLS), ToWORD(dwCaught))
        qwP2 == calcPartialFactorial(ToWORD(g_TOTAL_BALLS - g_MAX_SELECTABLE_BALLS - 1),
                                     ToWORD(dwNumMarked - dwCaught))
        qwP3 == calcPartialFactorial(ToWORD(g_TOTAL_BALLS), ToWORD(dwNumMarked))
    IN  RDiv(RMul(RMul(RFromBig(dwNumCombinations), qwP1), qwP2), qwP3)

calcKenoProbability(dwNumMarked, dwCaught) ==
    LET dwNumCombinations == calcCombinations(dwNumMarked, dwCaught)
        qwP1 == calcPartialFactorial(ToWORD(g_MAX_SELECTABLE_BALLS), ToWORD(dwCaught))
        qwP2 == calcPartialFactorial(ToWORD(g_TOTAL_BALLS - g_MAX_SELECTABLE_BALLS),
                                     ToWORD(dwNumMarked - dwCaught))
        qwP3 == calcPartialFactorial(ToWORD(g_TOTAL_BALLS), ToWORD(dwNumMarked))
    IN  RDiv(RMul(RMul(RFromBig(dwNumCombinations), qwP1), qwP2), qwP3)

\* a QWORD multiplication whose product does not fit 64 bits
QMulWraps(a, b) == Mul(a, b) # QMul(a, b)

\* the arguments of the calls of calcFactorial that calcFactorial(wN) makes,
\* its own included: wN, wN - 1, ... down to 1
FactorialArguments(wN) == IF wN > 1 THEN 1 .. wN ELSE {wN}

\* one of the multiplications wN * calcFactorial(wN - 1) made by
\* calcFactorial(wN) wraps
FactorialWraps(wN) ==
    \E k \in 2 .. wN : QMulWraps(FromInt(k), calcFactorial(k - 1))

\* the arguments calcFactorial is called with by calcCombinations(dwN, dwR)
CombinationsFactorialArguments(dwN, dwR) ==
    IF dwR <= dwN
    THEN FactorialArguments(ToWORD(dwN)) \cup FactorialArguments(ToWORD(dwR))
             \cup FactorialArguments(ToWORD(dwN - dwR))
    ELSE {}

\* a factorial computed by calcCombinations(dwN, dwR), or its product
\* qwRFactorial * qwDifFactorial, wraps
CombinationsWraps(dwN, dwR) ==
    /\ dwR <= dwN
    /\ \/ FactorialWraps(ToWORD(dwN))
       \/ FactorialWraps(ToWORD(dwR))
       \/ FactorialWraps(ToWORD(dwN - dwR))
       \/ QMulWraps(calcFactorial(ToWORD(dwR)), calcFactorial(ToWORD(dwN - dwR)))

\* the (wN, wNumTerms) calcPartialFactorial is called with by
\* calcKenoProbability(dwNumMarked, dwCaught)
KenoPartialFactorialArguments(dwNumMarked, dwCaught) ==
    { <<ToWORD(g_MAX_SELECTABLE_BALLS), ToWORD(dwCaught)>>,
      <<ToWORD(g_TOTAL_BALLS - g_MAX_SELECTABLE_BALLS),
        ToWORD(dwNumMarked - dwCaught)>>,
      <<ToWORD(g_TOTAL_BALLS), ToWORD(dwNumMarked)>> }

-----------------------------------------------------------------------------
(* _tmain                                                                  *)

Rows == 0 .. g_MAX_ROWS - 1

Cols == 0 .. g_MAX_COLS - 1

Spots == 0 .. g_MAX_SPOTS_MARKED - 1

\* The state the program starts in: the two global arrays are zero-initialised
Init ==
    /\ pc = "prob"
    /\ i = 0
    /\ j = 0
    /\ g_rgProbability = [r \in Rows |-> [c \in Cols |-> RZero]]
    /\ g_rgExpectedValue = [r \in Spots |-> RZero]
    /\ calls = {}
    /\ factorialArgs = {}
    /\ partialFactorialArgs = {}
    /\ wrapped = FALSE
    /\ xlProbability = << >>
    /\ xlExpectedValue = << >>
    /\ pass = 1
    /\ first = << >>
    /\ fn = "none"
    /\ argN = 0
    /\ argR = 0
    /\ ret = Zero

\* the test off by one: a catch of one more than was marked passes
CatchPossibleOffByOne(iNumSpotsMarked, caught) == iNumSpotsMarked + 1 >= caught

\* the test written with > for >=
CatchPossibleStrict(iNumSpotsMarked, caught) == iNumSpotsMarked > caught

\* the test of the probability loop's body: if ( iNumSpotsMarked >= j )
CatchPossible(iNumSpotsMarked, caught) == iNumSpotsMarked >= caught

\* the count of spots taken one too high
NumSpotsMarkedPlusTwo(row) == row + 2

\* const int iNumSpotsMarked = i + 1
NumSpotsMarked(row) == row + 1

\* the outer probability loop ended one row early
ProbAdvanceEarly ==
    IF j + 1 < g_MAX_COLS
    THEN /\ j' = j + 1
         /\ UNCHANGED <<i, pc>>
    ELSE /\ j' = 0
         /\ IF i + 2 < g_MAX_ROWS
            THEN i' = i + 1 /\ UNCHANGED pc
            ELSE i' = 0 /\ pc' = "ev"

\* j++ and i++ of the probability loop, and the loop's end
ProbAdvance ==
    IF j + 1 < g_MAX_COLS
    THEN /\ j' = j + 1
         /\ UNCHANGED <<i, pc>>
    ELSE /\ j' = 0
         /\ IF i + 1 < g_MAX_ROWS
            THEN i' = i + 1 /\ UNCHANGED pc
            ELSE i' = 0 /\ pc' = "ev"

\* One pass of the inner probability loop, the test true:
\* g_rgProbability[i][j] = calcKenoProbability ( iNumSpotsMarked, j )
ProbCompute ==
    /\ pc = "prob"
    /\ CatchPossible(NumSpotsMarked(i), j)
    /\ calls' = calls \cup {<<NumSpotsMarked(i), j>>}
    /\ factorialArgs' =
           factorialArgs \cup CombinationsFactorialArguments(NumSpotsMarked(i), j)
    /\ partialFactorialArgs' =
           partialFactorialArgs \cup KenoPartialFactorialArguments(NumSpotsMarked(i), j)
    /\ wrapped' = (wrapped \/ CombinationsWraps(NumSpotsMarked(i), j))
    /\ IF CombinationsUndefined(NumSpotsMarked(i), j)
       THEN /\ pc' = "fault"
            /\ UNCHANGED <<i, j, g_rgProbability>>
       ELSE /\ g_rgProbability' =
                  [g_rgProbability EXCEPT ![i][j] =
                       calcKenoProbability(NumSpotsMarked(i), j)]
            /\ ProbAdvance
    /\ UNCHANGED <<g_rgExpectedValue, xlProbability, xlExpectedValue, pass,
                   first, fn, argN, argR, ret>>

\* One pass of the inner probability loop, the test false: nothing is stored
ProbSkip ==
    /\ pc = "prob"
    /\ ~CatchPossible(NumSpotsMarked(i), j)
    /\ ProbAdvance
    /\ UNCHANGED <<g_rgProbability, g_rgExpectedValue, calls,
                   factorialArgs, partialFactorialArgs, wrapped, xlProbability,
                   xlExpectedValue, pass, first, fn, argN, argR, ret>>

\* double dPayout = g_rgCatchPayOut[i][j]
Payout(row, col) == RFromInt(g_rgCatchPayOut[row + 1][col + 1])

\* the divisor taken as the number of spots marked, i + 1
ExpectedValueTermBySpots(dKenoProb, dPayout, row) ==
    RDiv(RMul(dKenoProb, dPayout), RFromInt(row + 1))

\* dKenoProb * dPayout / (i+2)
ExpectedValueTerm(dKenoProb, dPayout, row) ==
    RDiv(RMul(dKenoProb, dPayout), RFromInt(row + 2))

\* = written for +=
AddAssignOverwrite(old, term) == term

\* g_rgExpectedValue[i] += term
AddAssign(old, term) == RAdd(old, term)

\* j++ and i++ of the expected-value loop, and the loop's end
ExpectedValueAdvance ==
    IF j + 1 < g_MAX_SPOTS_MARKED
    THEN /\ j' = j + 1
         /\ UNCHANGED <<i, pc>>
    ELSE /\ j' = 0
         /\ IF i + 1 < g_MAX_SPOTS_MARKED
            THEN i' = i + 1 /\ UNCHANGED pc
            ELSE i' = 0 /\ pc' = "coinit"

\* One pass of the inner expected-value loop, dPayout > 0
ExpectedValueAccumulate ==
    /\ pc = "ev"
    /\ RPositive(Payout(i, j))
    /\ LET dKenoProb == g_rgProbability[i][j + 1]
       IN  g_rgExpectedValue' =
               [g_rgExpectedValue EXCEPT ![i] =
                    AddAssign(@, ExpectedValueTerm(dKenoProb, Payout(i, j), i))]
    /\ ExpectedValueAdvance
    /\ UNCHANGED <<g_rgProbability, calls,
                   factorialArgs, partialFactorialArgs, wrapped,
                   xlProbability, xlExpectedValue,
                   pass, first, fn, argN, argR, ret>>

\* One pass of the inner expected-value loop, dPayout == 0
ExpectedValueSkip ==
    /\ pc = "ev"
    /\ ~RPositive(Payout(i, j))
    /\ ExpectedValueAdvance
    /\ UNCHANGED <<g_rgProbability, g_rgExpectedValue, calls,
                   factorialArgs, partialFactorialArgs, wrapped, xlProbability,
                   xlExpectedValue, pass, first, fn, argN, argR, ret>>

\* ::CoInitializeEx fails: _tmain returns hr
CoInitializeFails ==
    /\ pc = "coinit"
    /\ pc' = "done"
    /\ UNCHANGED <<i, j, g_rgProbability, g_rgExpectedValue, calls,
                   factorialArgs, partialFactorialArgs, wrapped,
                   xlProbability, xlExpectedValue, pass, first, fn, argN,
                   argR, ret>>

\* ::CoInitializeEx succeeds: ExportDataToExcel is called
CoInitializeOk ==
    /\ pc = "coinit"
    /\ pc' = "excel"
    /\ UNCHANGED <<i, j, g_rgProbability, g_rgExpectedValue, calls,
                   factorialArgs, partialFactorialArgs, wrapped,
                   xlProbability, xlExpectedValue, pass, first, fn, argN,
                   argR, ret>>

\* ExportDataToExcel: pXL.CreateInstance fails, nothing is exported
CreateInstanceFails ==
    /\ pc = "excel"
    /\ pc' = "done"
    /\ UNCHANGED <<i, j, g_rgProbability, g_rgExpectedValue, calls,
                   factorialArgs, partialFactorialArgs, wrapped,
                   xlProbability, xlExpectedValue, pass, first, fn, argN,
                   argR, ret>>

\* The sheet gets the 20 x 21 cells of g_rgProbability
ExportKenoProbabilityDataSheet ==
    /\ pc = "excel"
    /\ xlProbability' = [r \in Rows |-> [c \in Cols |-> g_rgProbability[r][c]]]
    /\ pc' = "payout"
    /\ UNCHANGED <<i, j, g_rgProbability, g_rgExpectedValue, calls,
                   factorialArgs, partialFactorialArgs, wrapped,
                   xlExpectedValue, pass, first, fn, argN, argR, ret>>

\* The sheet gets the 9 cells of g_rgExpectedValue
ExportKenoPayOutDataSheet ==
    /\ pc = "payout"
    /\ xlExpectedValue' = [r \in Spots |-> g_rgExpectedValue[r]]
    /\ pc' = "done"
    /\ UNCHANGED <<i, j, g_rgProbability, g_rgExpectedValue, calls,
                   factorialArgs, partialFactorialArgs, wrapped,
                   xlProbability, pass, first, fn, argN, argR, ret>>

Next ==
    \/ ProbCompute
    \/ ProbSkip
    \/ ExpectedValueAccumulate
    \/ ExpectedValueSkip
    \/ CoInitializeFails
    \/ CoInitializeOk
    \/ CreateInstanceFails
    \/ ExportKenoProbabilityDataSheet
    \/ ExportKenoPayOutDataSheet

Spec == Init /\ [][Next]_vars

\* The two loops of _tmain executed a second time, on the global arrays as
\* the first execution left them (first remembers them)
Rerun ==
    /\ pc = "coinit"
    /\ pass = 1
    /\ pass' = 2
    /\ first' = [prob |-> g_rgProbability, ev |-> g_rgExpectedValue]
    /\ pc' = "prob"
    /\ UNCHANGED <<i, j, g_rgProbability, g_rgExpectedValue, calls,
                   factorialArgs, partialFactorialArgs, wrapped,
                   xlProbability, xlExpectedValue, fn, argN, argR, ret>>

NextTwice == Next \/ Rerun

SpecTwice == Init /\ [][NextTwice]_vars

-----------------------------------------------------------------------------
(* The combinatorics functions called on their own, on bounded arguments   *)

\* the first argument is drawn from 0 .. MaxN
MaxN == 80

\* the second argument from 0 .. MaxR, or it is the first argument
MaxR == 22

\* what a call whose behaviour is undefined leaves in ret when it does not return
Fault == <<-1>>

InitLib ==
    /\ pc = "lib"
    /\ i = 0
    /\ j = 0
    /\ g_rgProbability = [r \in Rows |-> [c \in Cols |-> RZero]]
    /\ g_rgExpectedValue = [r \in Spots |-> RZero]
    /\ calls = {}
    /\ factorialArgs = {}
    /\ partialFactorialArgs = {}
    /\ wrapped = FALSE
    /\ xlProbability = << >>
    /\ xlExpectedValue = << >>
    /\ pass = 1
    /\ first = << >>
    /\ fn = "none"
    /\ argN \in 0 .. MaxN
    /\ argR \in (0 .. MaxR) \cup {argN}
    /\ ret = Zero

\* calcFactorial has one parameter: argR is not used, and is 0
CallFactorial ==
    /\ pc = "lib"
    /\ fn = "none"
    /\ argR = 0
    /\ fn' = "calcFactorial"
    /\ ret' = calcFactorial(ToWORD(argN))
    /\ UNCHANGED <<pc, i, j, g_rgProbability, g_rgExpectedValue, calls,
                   factorialArgs, partialFactorialArgs, wrapped,
                   xlProbability, xlExpectedValue, pass, first, argN, argR>>

CallPartialFactorial ==
    /\ pc = "lib"
    /\ fn = "none"
    /\ fn' = "calcPartialFactorial"
    /\ ret' = calcPartialFactorial(ToWORD(argN), ToWORD(argR))
    /\ UNCHANGED <<pc, i, j, g_rgProbability, g_rgExpectedValue, calls,
                   factorialArgs, partialFactorialArgs, wrapped,
                   xlProbability, xlExpectedValue, pass, first, argN, argR>>

\* A division by zero is undefined: the build either traps (x86, x64: the
\* call never returns) or yields some quotient
CallCombinations ==
    /\ pc = "lib"
    /\ fn = "none"
    /\ fn' = "calcCombinations"
    /\ IF CombinationsUndefined(argN, argR)
       THEN ret' \in {Fault, Zero, One}
       ELSE ret' = calcCombinations(argN, argR)
    /\ UNCHANGED <<pc, i, j, g_rgProbability, g_rgExpectedValue, calls,
                   factorialArgs, partialFactorialArgs, wrapped,
                   xlProbability, xlExpectedValue, pass, first, argN, argR>>

\* calcKenoProbability on up to g_TOTAL_BALLS marked (more would divide by P3 = 0.0)
CallKenoProbability ==
    /\ pc = "lib"
    /\ fn = "none"
    /\ argN <= g_TOTAL_BALLS
    /\ fn' = "calcKenoProbability"
    /\ IF CombinationsUndefined(argN, argR)
       THEN ret' \in {RFromBig(Fault), RZero}
       ELSE ret' = calcKenoProbability(argN, argR)
    /\ UNCHANGED <<pc, i, j, g_rgProbability, g_rgExpectedValue, calls,
                   factorialArgs, partialFactorialArgs, wrapped,
                   xlProbability, xlExpectedValue, pass, first, argN, argR>>

NextLib ==
    \/ CallFactorial
    \/ CallPartialFactorial
    \/ CallCombinations
    \/ CallKenoProbability

SpecLib == InitLib /\ [][NextLib]_vars

-----------------------------------------------------------------------------
(* Reference values the claims compare the functions with                  *)

\* lo * (lo + 1) * ... * hi, exactly
RECURSIVE ProductOf(_, _)
ProductOf(lo, hi) ==
    IF lo > hi THEN One
    ELSE IF lo = hi THEN FromInt(lo)
    ELSE LET mid == (lo + hi) \div 2
         IN  Mul(ProductOf(lo, mid), ProductOf(mid + 1, hi))

\* n!, exactly
Factorial(n) == ProductOf(1, n)

\* Pascal's triangle: the row below row, each entry the sum of the two above it
PascalBelow(row) ==
    [k \in 1 .. Len(row) + 1 |->
        Add(IF k > 1 THEN row[k - 1] ELSE Zero,
            IF k <= Len(row) THEN row[k] ELSE Zero)]

\* the row hi - lo + 1 rows below row
RECURSIVE PascalFrom(_, _, _)
PascalFrom(lo, hi, row) ==
    IF lo > hi \/ row = << >> THEN row
    ELSE IF lo = hi THEN PascalBelow(row)
    ELSE LET mid == (lo + hi) \div 2
         IN  PascalFrom(mid + 1, hi, PascalFrom(lo, mid, row))

PascalTriangle == [n \in 0 .. MaxN + 1 |-> PascalFrom(1, n, <<One>>)]

\* the binomial coefficient C(n, k)
Binomial(n, k) == IF k > n THEN Zero ELSE PascalTriangle[n][k + 1]

-----------------------------------------------------------------------------
(* The claims                                                              *)

\* the probability loop of this execution has finished
ProbabilityLoopDone == pc \in {"ev", "coinit", "excel", "payout", "done"}

\* the sum of the cells 0 .. caught of a row of g_rgProbability
RECURSIVE RowSum(_, _)
RowSum(row, caught) ==
    IF caught = 0
    THEN g_rgProbability[row][0]
    ELSE RAdd(RowSum(row, caught - 1), g_rgProbability[row][caught])

\* C1: once the probability loop has finished, for every marked count m in
\* 1..20 the cells Probability[m][0..m] sum to exactly 1, that is, the sum
\* over c of C(m,c) * partialFactorial(20,c) * partialFactorial(60,m-c)
\* equals partialFactorial(80,m).
C1_RowsSumToOne ==
    ProbabilityLoopDone =>
        \A m \in 1 .. g_MAX_ROWS : REq(RowSum(m - 1, m), RFromInt(1))

\* C1's case: the loop has finished and the last row holds its 21 non-zero cells
C1_Witness ==
    /\ ProbabilityLoopDone
    /\ \A c \in Cols : RPositive(g_rgProbability[g_MAX_ROWS - 1][c])

\* what calcKenoProbability returns for each pair the loop calls it with
KenoTable ==
    [m \in 1 .. g_MAX_ROWS |-> [c \in 0 .. m |-> calcKenoProbability(m, c)]]

\* C2: once the probability loop has finished, for every marked count m in
\* 1..20 the cell g_rgProbability[m-1][c] is exactly 0.0 for c in m+1..20 and
\* holds what calcKenoProbability(m, c) returns for c in 0..m.
C2_MatrixCells ==
    ProbabilityLoopDone =>
        \A m \in 1 .. g_MAX_ROWS : \A c \in Cols :
            g_rgProbability[m - 1][c] = IF c <= m THEN KenoTable[m][c] ELSE RZero

\* C2's case: the loop has finished, a cell on the diagonal is written and
\* the cell to its right is still 0.0
C2_Witness ==
    /\ ProbabilityLoopDone
    /\ RPositive(g_rgProbability[4][5])
    /\ g_rgProbability[4][6] = RZero

\* C3: for every numMarked m in 1..20 and caught c in 0..m,
\* calcKenoProbability(m, c) = C(m,c) * P1 * P2 / P3 is, in exact
\* arithmetic, the hypergeometric probability C(20,c) * C(60,m-c) / C(80,m).
C3_Hypergeometric ==
    (fn = "calcKenoProbability" /\ argN \in 1 .. g_MAX_SELECTABLE_BALLS /\ argR <= argN) =>
        /\ ret.num # Fault
        /\ Mul(ret.num, Binomial(g_TOTAL_BALLS, argN)) =
               Mul(ret.den,
                   Mul(Binomial(g_MAX_SELECTABLE_BALLS, argR),
                       Binomial(g_TOTAL_BALLS - g_MAX_SELECTABLE_BALLS, argN - argR)))

\* C3's case: calcKenoProbability(9, 5) has returned a probability above 0
C3_Witness ==
    fn = "calcKenoProbability" /\ argN = 9 /\ argR = 5 /\ RPositive(ret)

\* n!, r!, (n-r)!, r! * (n-r)! and the quotient, computed in the program's
\* widths, are what they are without any width
NoWraparound(dwN, dwR) ==
    /\ calcFactorial(ToWORD(dwN)) = Factorial(dwN)
    /\ calcFactorial(ToWORD(dwR)) = Factorial(dwR)
    /\ calcFactorial(ToWORD(dwN - dwR)) = Factorial(dwN - dwR)
    /\ CombinationsDivisor(dwN, dwR) = Mul(Factorial(dwR), Factorial(dwN - dwR))
    /\ calcCombinations(dwN, dwR) =
           Div(Factorial(dwN), Mul(Factorial(dwR), Factorial(dwN - dwR)))

\* C4: for every n in 0..20 and r >= 0, calcCombinations(n, r) returns the
\* binomial coefficient C(n, r) of Pascal's triangle when r <= n and 0 when
\* r > n, with no wraparound in n!, r!, (n-r)!, r! * (n-r)! and no truncation
\* of the quotient.
C4_Combinations ==
    (fn = "calcCombinations" /\ argN <= g_MAX_SELECTABLE_BALLS) =>
        IF argR <= argN
        THEN ret = Binomial(argN, argR) /\ NoWraparound(argN, argR)
        ELSE ret = Zero

\* C4's case: calcCombinations(9, 5) has returned 126
C4_Witness ==
    fn = "calcCombinations" /\ argN = 9 /\ argR = 5 /\ ret = FromInt(126)

ExpectedValueLoopDone == pc \in {"coinit", "excel", "payout", "done"}

\* the sum over caught c in 1..upTo with Payout(s, c) > 0 of
\* Probability[s][c] * Payout(s, c) / (s + 1)
RECURSIVE DividedSum(_, _)
DividedSum(s, upTo) ==
    IF upTo = 0 THEN RZero
    ELSE IF g_rgCatchPayOut[s][upTo] > 0
    THEN RAdd(DividedSum(s, upTo - 1),
              RDiv(RMul(g_rgProbability[s - 1][upTo],
                        RFromInt(g_rgCatchPayOut[s][upTo])),
                   RFromInt(s + 1)))
    ELSE DividedSum(s, upTo - 1)

\* C7: once the expected-value loop has finished, for every spotsMarked s in
\* 1..9, g_rgExpectedValue[s-1] is the sum over caught c in 1..9 with
\* Payout(s,c) > 0 of Probability[s][c] * Payout(s,c) / (s + 1); in
\* particular ExpectedValue[1] = Probability[1][1] * 3 / 2.
C7_ExpectedValue ==
    ExpectedValueLoopDone =>
        /\ \A s \in 1 .. g_MAX_SPOTS_MARKED :
               REq(g_rgExpectedValue[s - 1], DividedSum(s, g_MAX_PAYOUT_COLS))
        /\ REq(g_rgExpectedValue[0],
               RDiv(RMul(g_rgProbability[0][1], RFromInt(3)), RFromInt(2)))

\* C7's case: the loop has finished and every entry has got a term
C7_Witness ==
    /\ ExpectedValueLoopDone
    /\ \A s \in Spots : RPositive(g_rgExpectedValue[s])

\* the sum over the catch outcomes c in 0..upTo of Probability[s][c] *
\* Payout(s, c), where Payout(s, 0) = 0
RECURSIVE WeightedSum(_, _)
WeightedSum(s, upTo) ==
    IF upTo = 0 THEN RZero
    ELSE RAdd(WeightedSum(s, upTo - 1),
              RMul(g_rgProbability[s - 1][upTo], RFromInt(g_rgCatchPayOut[s][upTo])))

\* C8: for every spotsMarked s in 1..9, ExpectedValue[s] is the
\* probability-weighted average payout of a $1 bet: the sum over the catch
\* outcomes c in 0..s of Probability[s][c] * Payout(s,c).
C8_WeightedAverage ==
    ExpectedValueLoopDone =>
        \A s \in 1 .. g_MAX_SPOTS_MARKED :
            REq(g_rgExpectedValue[s - 1], WeightedSum(s, s))

C10_NeverCalledBeyond ==
    /\ \A call \in calls : call[2] <= call[1]
    /\ \A r \in Rows : \A c \in Cols :
           c > r + 1 => g_rgProbability[r][c] = RZero
    /\ ProbabilityLoopDone =>
           calls = {<<m, c>> \in (1 .. g_MAX_ROWS) \X Cols : c <= m}

\* C10's case: the loop has passed the pair (1, 2) without a call, and
\* has called calcKenoProbability for (20, 20)
C10_Witness ==
    /\ ProbabilityLoopDone
    /\ <<1, 2>> \notin calls
    /\ <<20, 20>> \in calls

\* C11: in every state of a run of _tmain, every argument calcFactorial has
\* been called with is at most 20, no factorial and no product
\* r! * (n-r)! computed by calcCombinations has wrapped around 2^64, and the
\* bases 60 and 80 have been passed to calcPartialFactorial only: never to
\* calcFactorial, never to calcCombinations.
C11_FactorialArguments ==
    /\ \A wN \in factorialArgs : wN <= 20
    /\ ~wrapped
    /\ \A base \in {g_TOTAL_BALLS - g_MAX_SELECTABLE_BALLS, g_TOTAL_BALLS} :
           /\ base \notin factorialArgs
           /\ \A call \in calls : call[1] # base
    /\ \A call \in partialFactorialArgs :
           call[1] \in {g_MAX_SELECTABLE_BALLS,
                        g_TOTAL_BALLS - g_MAX_SELECTABLE_BALLS, g_TOTAL_BALLS}

\* C11's case: the loop has finished, calcFactorial has been called with 20,
\* and calcPartialFactorial with the bases 60 and 80 and 20 terms
C11_Witness ==
    /\ ProbabilityLoopDone
    /\ 20 \in factorialArgs
    /\ <<g_TOTAL_BALLS - g_MAX_SELECTABLE_BALLS, 20>> \in partialFactorialArgs
    /\ <<g_TOTAL_BALLS, 20>> \in partialFactorialArgs

\* the value the cell [row][col] of g_rgProbability ends the run with
FinalCell(row, col) ==
    IF col <= row + 1 THEN KenoTable[row + 1][col] ELSE RZero

\* C12: the expected-value loop does not start until calcKenoProbability has
\* been called and its result stored for every cell with caught <= marked;
\* from then on no step (expected-value loop or export) changes a cell of
\* g_rgProbability; and every cell [i][j+1] the expected-value loop reads is
\* inside the 20 x 21 array and holds the value it ends the run with.
C12_Barrier ==
    /\ [](ProbabilityLoopDone =>
              /\ calls = {<<m, c>> \in (1 .. g_MAX_ROWS) \X Cols : c <= m}
              /\ \A r \in Rows : \A c \in Cols :
                     g_rgProbability[r][c] = FinalCell(r, c))
    /\ [](pc = "ev" =>
              /\ i \in Rows
              /\ j + 1 \in Cols
              /\ g_rgProbability[i][j + 1] = FinalCell(i, j + 1))
    /\ [][ProbabilityLoopDone => g_rgProbability' = g_rgProbability]_vars

\* C12's case: both loops have run, the last read of the expected-value
\* loop was of cell [8][9], and the export has copied the matrix unchanged
C12_Witness ==
    /\ pc = "done"
    /\ DOMAIN xlProbability = Rows
    /\ xlProbability = g_rgProbability
    /\ RPositive(g_rgProbability[g_MAX_SPOTS_MARKED - 1][g_MAX_SPOTS_MARKED])
    /\ \A s \in Spots : RPositive(g_rgExpectedValue[s])

=============================================================================
